---- MODULE Spec2Model ----
(***************************************************************************)
(* Model of ff_derive (src/ff_derive/src/lib.rs): the PrimeField derive    *)
(* computes the limb count and the field constants for a modulus and a     *)
(* generator, emits the limb-level code of the field, and the emitted      *)
(* field operations then run on a field element.                           *)
(*                                                                         *)
(* The limbs of the source are 64 bits wide.  The model keeps every        *)
(* shift, mask and wrap-around of the source but scales the limb width to  *)
(* LimbBits bits, so that a limb is a value in 0 .. 2^LimbBits - 1 and a   *)
(* double-width product still is an integer the model checker can hold.    *)
(***************************************************************************)
EXTENDS Integers, Sequences, FiniteSets, TLC

\* Width of one limb in bits (64 in the source, scaled).
LimbBits == 3

\* Rounds of the loops of one inverse() the model follows (all three loops
\* counted together).
MaxInvSteps == 40

\* Rounds of the outer loop of one Tonelli-Shanks sqrt() the model follows.
MaxTonelliIters == 8

\* Bits of one byte of BigUint::to_bytes_be (the 0..8 of exp).
ByteBits == 8

RECURSIVE Pow2(_)
Pow2(k) == IF k = 0 THEN 1 ELSE 2 * Pow2(k - 1)

\* One past the largest limb value: 2^64 in the source.
W == Pow2(LimbBits)

\* The fields the derive is run for: <<PrimeFieldModulus, PrimeFieldGenerator>>,
\* each an odd prime with a quadratic nonresidue.
Fields == { <<3, 2>>, <<7, 3>>, <<13, 2>>, <<17, 3>>, <<37, 2>> }

None == <<>>

(***************************************************************************)
(* ::ff::adc, ::ff::sbb, ::ff::mac_with_carry: each returns                *)
(* <<low limb, new carry or borrow>>.                                      *)
(***************************************************************************)
adc(a, b, carry) ==
    LET t == a + b + carry IN << t % W, t \div W >>

sbb(a, b, borrow) ==
    LET t == W + a - b - borrow
    IN  << t % W, IF t \div W = 0 THEN 1 ELSE 0 >>

mac_with_carry(a, b, c, carry) ==
    LET t == a + (b * c) + carry IN << t % W, t \div W >>

(***************************************************************************)
(* PrimeFieldRepr: a Repr is a sequence of limbs, least significant first. *)
(***************************************************************************)
\* The integer a Repr stands for.
RECURSIVE ValFrom(_, _)
ValFrom(r, i) == IF i > Len(r) THEN 0 ELSE r[i] + W * ValFrom(r, i + 1)

Val(r) == ValFrom(r, 1)

is_odd(r) == r[1] % 2 = 1

is_even(r) == ~is_odd(r)

repr_is_zero(r) == \A i \in 1..Len(r) : r[i] = 0

\* `ret` with `v` pushed until it has `n` entries.
RECURSIVE Fill(_, _, _)
Fill(ret, v, n) == IF Len(ret) < n THEN Fill(Append(ret, v), v, n) ELSE ret

\* From<u64>: limb 0 is val, the others are zero.
ReprFrom(val, n) == Fill(<<val>>, 0, n)

\* div2: from the top limb down, t carries the bit shifted out of the limb above.
RECURSIVE Div2Loop(_, _, _)
Div2Loop(r, i, t) ==
    IF i = 0 THEN r
    ELSE LET t2 == (r[i] * Pow2(LimbBits - 1)) % W
             lo == (r[i] \div 2) + t
         IN  Div2Loop([r EXCEPT ![i] = lo], i - 1, t2)

div2(r) == Div2Loop(r, Len(r), 0)

\* mul2: from the bottom limb up; the bit shifted out of the top limb is dropped.
RECURSIVE Mul2Loop(_, _, _)
Mul2Loop(r, i, last) ==
    IF i > Len(r) THEN [r |-> r, out |-> last]
    ELSE LET tmp == r[i] \div Pow2(LimbBits - 1)
             hi  == ((r[i] * 2) % W) + last
         IN  Mul2Loop([r EXCEPT ![i] = hi], i + 1, tmp)

mul2(r) == Mul2Loop(r, 1, 0).r

RECURSIVE AdcLoop(_, _, _, _)
AdcLoop(a, b, i, carry) ==
    IF i > Len(a) THEN [r |-> a, carry |-> carry]
    ELSE LET t == adc(a[i], b[i], carry)
         IN  AdcLoop([a EXCEPT ![i] = t[1]], b, i + 1, t[2])

\* add_nocarry: [r: the sum, carry: whether a carry left the top limb].
add_nocarry(a, b) ==
    LET res == AdcLoop(a, b, 1, 0) IN [r |-> res.r, carry |-> res.carry # 0]

RECURSIVE SbbLoop(_, _, _, _)
SbbLoop(a, b, i, borrow) ==
    IF i > Len(a) THEN [r |-> a, borrow |-> borrow]
    ELSE LET t == sbb(a[i], b[i], borrow)
         IN  SbbLoop([a EXCEPT ![i] = t[1]], b, i + 1, t[2])

\* sub_noborrow: [r: the difference, borrow: whether a borrow left the top limb].
sub_noborrow(a, b) ==
    LET res == SbbLoop(a, b, 1, 0) IN [r |-> res.r, borrow |-> res.borrow # 0]

\* Ord::cmp: limbs compared from the most significant down; -1, 0 or 1.
RECURSIVE CmpFrom(_, _, _)
CmpFrom(a, b, i) ==
    IF i = 0 THEN 0
    ELSE IF a[i] < b[i] THEN -1
    ELSE IF a[i] > b[i] THEN 1
    ELSE CmpFrom(a, b, i - 1)

cmp(a, b) == CmpFrom(a, b, Len(a))

(***************************************************************************)
(* Helpers of the derive.                                                  *)
(***************************************************************************)
\* biguint_to_u64_vec: the limbs of v, padded with zero limbs up to `limbs`.
RECURSIVE U64VecLoop(_, _)
U64VecLoop(v, ret) ==
    IF v > 0 THEN U64VecLoop(v \div W, Append(ret, v % W)) ELSE ret

biguint_to_u64_vec(v, limbs) == Fill(U64VecLoop(v, <<>>), 0, limbs)

RECURSIVE NumBitsLoop(_, _)
NumBitsLoop(v, bits) ==
    IF v # 0 THEN NumBitsLoop(v \div 2, bits + 1) ELSE bits

biguint_num_bits(v) == NumBitsLoop(v, 0)

\* BigUint::to_bytes_be: the bytes of e, most significant first; zero is one zero byte.
RECURSIVE BytesLoop(_, _)
BytesLoop(e, acc) ==
    IF e = 0 THEN acc
    ELSE BytesLoop(e \div Pow2(ByteBits), <<e % Pow2(ByteBits)>> \o acc)

\* to_bytes_be that gives no byte at all for zero.
to_bytes_be_empty(e) == BytesLoop(e, <<>>)

to_bytes_be(e) == IF e = 0 THEN <<0>> ELSE BytesLoop(e, <<>>)

\* The bits of the bytes, each byte from bit 7 down to bit 0.
ExpBits(e) ==
    LET bytes == to_bytes_be(e)
    IN  [k \in 1..(Len(bytes) * ByteBits) |->
            LET x == bytes[((k - 1) \div ByteBits) + 1]
                i == (ByteBits - 1) - ((k - 1) % ByteBits)
            IN  (x \div Pow2(i)) % 2 = 1]

RECURSIVE ExpLoop(_, _, _, _, _)
ExpLoop(ret, base, bits, k, modulus) ==
    IF k > Len(bits) THEN ret
    ELSE LET sq == (ret * ret) % modulus
         IN  ExpLoop(IF bits[k] THEN (sq * base) % modulus ELSE sq,
                     base, bits, k + 1, modulus)

\* exp: BigUint modular exponentiation by square-and-multiply.
exp(base, e, modulus) == ExpLoop(1, base, ExpBits(e), 1, modulus)

\* The limb count loop of prime_field.
RECURSIVE LimbsLoop(_, _, _)
LimbsLoop(limbs, cur, mod2) ==
    IF cur < mod2 THEN LimbsLoop(limbs + 1, cur * W, mod2) ELSE limbs

\* The loop started against the modulus itself instead of modulus * 2.
LimbCountNoDouble(modulus) == LimbsLoop(1, W, modulus)

LimbCount(modulus) == LimbsLoop(1, W, modulus * 2)

(***************************************************************************)
(* prime_field_constants_and_sqrt: the constants the derive emits.         *)
(***************************************************************************)
\* modulus - 1 = 2^s * t with t odd.
RECURSIVE STLoop(_, _)
STLoop(s, t) ==
    IF t % 2 = 0 THEN STLoop(s + 1, t \div 2) ELSE [s |-> s, t |-> t]

\* -m^-1 mod 2^64, by LimbBits - 1 rounds of squaring and multiplying by modulus[0].
RECURSIVE InvLoop(_, _, _)
InvLoop(inv, m0, k) ==
    IF k = 0 THEN inv
    ELSE InvLoop((((inv * inv) % W) * m0) % W, m0, k - 1)

Inv(m0) == (W - InvLoop(1, m0, LimbBits - 1)) % W

\* The selection of sqrt_impl with Tonelli-Shanks for every m = 1 mod 4.
SqrtSelectAll(modulus) == IF modulus % 4 = 3 THEN "shanks" ELSE "tonelli"

\* Which sqrt the derive emits: Shanks for m = 3 mod 4, Tonelli-Shanks for
\* m = 1 mod 16, none otherwise.
SqrtSelect(modulus) ==
    IF modulus % 4 = 3 THEN "shanks"
    ELSE IF modulus % 16 = 1 THEN "tonelli"
    ELSE "none"

FieldConstants(modulus, generator, limbs) ==
    LET r  == Pow2(limbs * LimbBits) % modulus
        st == STLoop(0, modulus - 1)
    IN  [ MODULUS         |-> biguint_to_u64_vec(modulus, limbs),
          MODULUS_BITS    |-> biguint_num_bits(modulus),
          REPR_SHAVE_BITS |-> (LimbBits * limbs) - biguint_num_bits(modulus),
          R               |-> biguint_to_u64_vec(r, limbs),
          R2              |-> biguint_to_u64_vec((r * r) % modulus, limbs),
          INV             |-> Inv(modulus % W),
          GENERATOR       |-> biguint_to_u64_vec((generator * r) % modulus, limbs),
          S               |-> st.s,
          ROOT_OF_UNITY   |->
              biguint_to_u64_vec((exp(generator, st.t, modulus) * r) % modulus, limbs),
          sqrt_impl       |-> SqrtSelect(modulus),
          mod_minus_3_over_4 |->
              IF modulus % 4 = 3
              THEN biguint_to_u64_vec((modulus - 3) \div 4, limbs) ELSE None,
          rneg            |->
              IF modulus % 4 = 3
              THEN biguint_to_u64_vec(modulus - r, limbs) ELSE None,
          mod_minus_1_over_2 |->
              IF SqrtSelect(modulus) = "tonelli"
              THEN biguint_to_u64_vec((modulus - 1) \div 2, limbs) ELSE None,
          t_plus_1_over_2 |->
              IF SqrtSelect(modulus) = "tonelli"
              THEN biguint_to_u64_vec((st.t + 1) \div 2, limbs) ELSE None,
          t               |->
              IF SqrtSelect(modulus) = "tonelli"
              THEN biguint_to_u64_vec(st.t, limbs) ELSE None ]

(***************************************************************************)
(* prime_field_impl emits straight-line code over the temporaries          *)
(* r0 .. r(2n-1).  mul_impl, sqr_impl and mont_impl return that code as a  *)
(* sequence of statements [op, dst, i, j], one per quote! fragment:        *)
(*   "carry0"     let mut carry = 0;                                       *)
(*   "mac0"       let r<dst> = mac_with_carry(0, a[i], b[j], &mut carry);  *)
(*   "mac"        let r<dst> = mac_with_carry(r<dst>, a[i], b[j], ..);     *)
(*   "getcarry"   let r<dst> = carry;                                      *)
(*   "shl_first"  let tmp0 = r<dst> >> 63; let r<dst> = r<dst> << 1;       *)
(*   "shl_mid"    let tmp1 = r<dst> >> 63; let r<dst> = r<dst> << 1;       *)
(*                let r<dst> = r<dst> | tmp0; let tmp0 = tmp1;             *)
(*   "shl_last"   let r<dst> = tmp0;                                       *)
(*   "adc0"       let r<dst> = adc(r<dst>, 0, &mut carry);                 *)
(*   "mont_k"     let k = r<dst>.wrapping_mul(INV); let mut carry = 0;     *)
(*                mac_with_carry(r<dst>, k, MODULUS.0[0], &mut carry);     *)
(*   "mont_mac"   r<dst> = mac_with_carry(r<dst>, k, MODULUS.0[j], ..);    *)
(*   "mont_adc0"  r<dst> = adc(r<dst>, 0, &mut carry);                     *)
(*   "mont_adc2"  r<dst> = adc(r<dst>, carry2, &mut carry);                *)
(*   "carry2"     let carry2 = carry;                                      *)
(*   "store"      (self.0).0[i] = r<dst>;                                  *)
(* In square() both a and b are self.                                      *)
(***************************************************************************)
Stmt(op, dst, i, j) == [op |-> op, dst |-> dst, i |-> i, j |-> j]

\* mul_impl: the inner loop over j of row i.
RECURSIVE MulRow(_, _, _, _)
MulRow(gen, limbs, i, j) ==
    IF j >= limbs THEN gen
    ELSE MulRow(Append(gen, Stmt(IF i = 0 THEN "mac0" ELSE "mac", i + j, i, j)),
                limbs, i, j + 1)

RECURSIVE MulRows(_, _, _)
MulRows(gen, limbs, i) ==
    IF i >= limbs THEN gen
    ELSE MulRows(Append(MulRow(Append(gen, Stmt("carry0", 0, 0, 0)), limbs, i, 0),
                        Stmt("getcarry", i + limbs, 0, 0)),
                 limbs, i + 1)

mul_impl(limbs) == MulRows(<<>>, limbs, 0)

\* sqr_impl, first loop: the cross terms above the diagonal, j in (i+1)..limbs.
RECURSIVE SqrRow(_, _, _, _)
SqrRow(gen, limbs, i, j) ==
    IF j >= limbs THEN gen
    ELSE SqrRow(Append(gen, Stmt(IF i = 0 THEN "mac0" ELSE "mac", i + j, i, j)),
                limbs, i, j + 1)

RECURSIVE SqrRows(_, _, _)
SqrRows(gen, limbs, i) ==
    IF i >= limbs - 1 THEN gen
    ELSE SqrRows(Append(SqrRow(Append(gen, Stmt("carry0", 0, 0, 0)), limbs, i, i + 1),
                        Stmt("getcarry", i + limbs, 0, 0)),
                 limbs, i + 1)

\* sqr_impl, second loop: the accumulator shifted left by one bit, i in 1..(limbs*2).
RECURSIVE SqrShift(_, _, _)
SqrShift(gen, limbs, i) ==
    IF i >= limbs * 2 THEN gen
    ELSE SqrShift(Append(gen, Stmt(IF i = 1 THEN "shl_first"
                                   ELSE IF i = (limbs * 2) - 1 THEN "shl_last"
                                   ELSE "shl_mid", i, 0, 0)),
                  limbs, i + 1)

\* sqr_impl, third loop: the diagonal terms.
RECURSIVE SqrDiag(_, _, _)
SqrDiag(gen, limbs, i) ==
    IF i >= limbs THEN gen
    ELSE SqrDiag(Append(Append(gen, Stmt(IF i = 0 THEN "mac0" ELSE "mac", i * 2, i, i)),
                        Stmt("adc0", (i * 2) + 1, 0, 0)),
                 limbs, i + 1)

sqr_impl(limbs) ==
    SqrDiag(Append(SqrShift(SqrRows(<<>>, limbs, 0), limbs, 1), Stmt("carry0", 0, 0, 0)),
            limbs, 0)

\* mont_impl: the inner loop over j (from 1) of round i.
RECURSIVE MontRow(_, _, _, _)
MontRow(gen, limbs, i, j) ==
    IF j >= limbs THEN gen
    ELSE MontRow(Append(gen, Stmt("mont_mac", i + j, i, j)), limbs, i, j + 1)

RECURSIVE MontRounds(_, _, _)
MontRounds(gen, limbs, i) ==
    IF i >= limbs THEN gen
    ELSE LET row == MontRow(Append(gen, Stmt("mont_k", i, i, 0)), limbs, i, 1)
             top == Append(row, Stmt(IF i = 0 THEN "mont_adc0" ELSE "mont_adc2",
                                     i + limbs, i, 0))
         IN  MontRounds(IF i # limbs - 1 THEN Append(top, Stmt("carry2", 0, 0, 0))
                        ELSE top,
                        limbs, i + 1)

RECURSIVE MontStore(_, _, _)
MontStore(gen, limbs, i) ==
    IF i >= limbs THEN gen
    ELSE MontStore(Append(gen, Stmt("store", limbs + i, i, 0)), limbs, i + 1)

mont_impl(limbs) == MontStore(MontRounds(<<>>, limbs, 0), limbs, 0)

(***************************************************************************)
(* Running the emitted code.  env.r[k + 1] is the value of rk, or Unbound  *)
(* while no `let` (and no parameter) has bound rk; env.unbound collects    *)
(* the temporaries a statement names while they are unbound.  Code that    *)
(* names an unbound temporary does not compile: the value 0 stands in only *)
(* so that env.unbound can be computed for the whole body.                 *)
(***************************************************************************)
Unbound == -1

Env(r, a, b, modulus, inv) ==
    [ r |-> r, a |-> a, b |-> b, MODULUS |-> modulus, INV |-> inv,
      carry |-> 0, carry2 |-> 0, tmp0 |-> 0, k |-> 0, self |-> a,
      unbound |-> {}, pc |-> 1 ]

Rd(env, k) == IF env.r[k + 1] = Unbound THEN 0 ELSE env.r[k + 1]

Named(env, k) == IF env.r[k + 1] = Unbound THEN env.unbound \cup {k} ELSE env.unbound

Step(env, s) ==
    LET d == s.dst IN
    CASE s.op = "carry0" -> [env EXCEPT !.carry = 0, !.pc = @ + 1]
      [] s.op = "mac0" ->
            LET t == mac_with_carry(0, env.a[s.i + 1], env.b[s.j + 1], env.carry)
            IN  [env EXCEPT !.r[d + 1] = t[1], !.carry = t[2], !.pc = @ + 1]
      [] s.op = "mac" ->
            LET t == mac_with_carry(Rd(env, d), env.a[s.i + 1], env.b[s.j + 1], env.carry)
            IN  [env EXCEPT !.r[d + 1] = t[1], !.carry = t[2],
                            !.unbound = Named(env, d), !.pc = @ + 1]
      [] s.op = "getcarry" -> [env EXCEPT !.r[d + 1] = env.carry, !.pc = @ + 1]
      [] s.op = "shl_first" ->
            [env EXCEPT !.tmp0 = Rd(env, d) \div Pow2(LimbBits - 1),
                        !.r[d + 1] = (Rd(env, d) * 2) % W,
                        !.unbound = Named(env, d), !.pc = @ + 1]
      [] s.op = "shl_mid" ->
            [env EXCEPT !.tmp0 = Rd(env, d) \div Pow2(LimbBits - 1),
                        !.r[d + 1] = ((Rd(env, d) * 2) % W) + env.tmp0,
                        !.unbound = Named(env, d), !.pc = @ + 1]
      [] s.op = "shl_last" -> [env EXCEPT !.r[d + 1] = env.tmp0, !.pc = @ + 1]
      [] s.op = "adc0" ->
            LET t == adc(Rd(env, d), 0, env.carry)
            IN  [env EXCEPT !.r[d + 1] = t[1], !.carry = t[2],
                            !.unbound = Named(env, d), !.pc = @ + 1]
      [] s.op = "mont_k" ->
            LET k == (env.r[d + 1] * env.INV) % W
            IN  [env EXCEPT !.k = k,
                            !.carry = mac_with_carry(env.r[d + 1], k, env.MODULUS[1], 0)[2],
                            !.pc = @ + 1]
      [] s.op = "mont_mac" ->
            LET t == mac_with_carry(env.r[d + 1], env.k, env.MODULUS[s.j + 1], env.carry)
            IN  [env EXCEPT !.r[d + 1] = t[1], !.carry = t[2], !.pc = @ + 1]
      [] s.op = "mont_adc0" ->
            LET t == adc(env.r[d + 1], 0, env.carry)
            IN  [env EXCEPT !.r[d + 1] = t[1], !.carry = t[2], !.pc = @ + 1]
      [] s.op = "mont_adc2" ->
            LET t == adc(env.r[d + 1], env.carry2, env.carry)
            IN  [env EXCEPT !.r[d + 1] = t[1], !.carry = t[2], !.pc = @ + 1]
      [] s.op = "carry2" -> [env EXCEPT !.carry2 = env.carry, !.pc = @ + 1]
      [] s.op = "store" -> [env EXCEPT !.self[s.i + 1] = env.r[d + 1], !.pc = @ + 1]

RECURSIVE Run(_, _)
Run(env, code) ==
    IF env.pc > Len(code) THEN env ELSE Run(Step(env, code[env.pc]), code)

\* The temporaries the body names before any `let` binds them.
UnboundIn(code, limbs) ==
    Run(Env(Fill(<<>>, Unbound, 2 * limbs), Fill(<<>>, 0, limbs), Fill(<<>>, 0, limbs),
            Fill(<<>>, 0, limbs), 0),
        code).unbound

(***************************************************************************)
(* State.                                                                  *)
(*   phase   "derive" before the derive has run, then "ready" when the     *)
(*           emitted impl compiles, "nobuild" when it names an unbound     *)
(*           temporary; "exp" then "exp_done" when only exp() is called    *)
(*   field   <<modulus, generator>> given to the derive                    *)
(*   limbs   the limb count the derive computed (0 before it ran)          *)
(*   consts  the constants the derive emitted                              *)
(*   code    the bodies the derive emitted: [mul, sqr, mont]               *)
(*   acc     the field element the caller holds (None: none built yet)     *)
(*   last    the last call: op, x (self before), y (the argument),         *)
(*           out (the Option / Result tag), ret (a returned Repr),         *)
(*           seen (coefficients inverse went through), n (a count),        *)
(*           t (the 2n-limb product handed to mont_reduce), pre (the Repr  *)
(*           mont_reduce holds before reduce()), carry (the carry its last *)
(*           adc leaves), lost (the carries and borrows the operation      *)
(*           dropped while set), trace (the rounds of a loop), steps (the  *)
(*           rounds of all its loops together)                             *)
(*   expIn, expOut   arguments and result of the last exp() call           *)
(***************************************************************************)
VARIABLES phase, field, limbs, consts, code, acc, last, expIn, expOut

vars == << phase, field, limbs, consts, code, acc, last, expIn, expOut >>

Call(op, x, y, out) ==
    [op |-> op, x |-> x, y |-> y, out |-> out, ret |-> None, seen |-> {}, n |-> 0,
     t |-> None, pre |-> None, carry |-> 0, lost |-> {}, trace |-> <<>>,
     steps |-> 0]

(***************************************************************************)
(* impl #name: is_valid, reduce, mont_reduce.                              *)
(***************************************************************************)
\* is_valid with <= where the source has <: the boundary MODULUS itself passes.
is_valid_le(self) == cmp(self, consts.MODULUS) <= 0

is_valid(self) == cmp(self, consts.MODULUS) < 0

\* reduce without its conditional subtraction.
reduce_skipped(self) == self

reduce(self) ==
    IF ~is_valid(self) THEN sub_noborrow(self, consts.MODULUS).r ELSE self

\* The emitted rounds and stores of mont_reduce(r0, .., r(2n-1)): the locals
\* they leave, with .self the Repr stored and .carry the carry of the last adc.
mont_rounds(self, r) == Run(Env(r, self, self, consts.MODULUS, consts.INV), code.mont)

\* mont_reduce: the emitted rounds and stores, then reduce().
mont_reduce(self, r) == reduce(mont_rounds(self, r).self)

(***************************************************************************)
(* impl ::ff::Field and ::ff::PrimeField, on the Repr the element holds.   *)
(***************************************************************************)
zero == ReprFrom(0, limbs)

one == consts.R

is_zero(self) == repr_is_zero(self)

\* The borrow reduce drops: that of its sub_noborrow(&MODULUS.0).
reduce_lost(self) ==
    IF ~is_valid(self) /\ sub_noborrow(self, consts.MODULUS).borrow
    THEN {"reduce.sub_noborrow"} ELSE {}

add_assign(self, other) == reduce(add_nocarry(self, other).r)

\* The carry add_assign drops, and the borrow of its reduce.
add_assign_lost(self, other) ==
    (IF add_nocarry(self, other).carry THEN {"add_assign.add_nocarry"} ELSE {})
    \cup reduce_lost(add_nocarry(self, other).r)

\* double without reduce.
double_unreduced(self) == mul2(self)

double(self) == reduce(mul2(self))

\* The bit mul2 shifts out of the top limb in double, and the borrow of its reduce.
double_lost(self) ==
    (IF Mul2Loop(self, 1, 0).out # 0 THEN {"double.mul2"} ELSE {})
    \cup reduce_lost(mul2(self))

sub_assign(self, other) ==
    LET s1 == IF cmp(other, self) > 0
              THEN add_nocarry(self, consts.MODULUS).r ELSE self
    IN  sub_noborrow(s1, other).r

\* negate without the subtraction from MODULUS.
negate_kept(self) == self

negate(self) ==
    IF ~is_zero(self) THEN sub_noborrow(consts.MODULUS, self).r ELSE self

\* The temporaries r0 .. r(2n-1) the emitted multiplication hands to mont_reduce.
mul_product(self, other) ==
    Run(Env(Fill(<<>>, Unbound, 2 * limbs), self, other,
            consts.MODULUS, consts.INV), code.mul).r

\* The borrow negate drops.
negate_lost(self) ==
    IF ~is_zero(self) /\ sub_noborrow(consts.MODULUS, self).borrow
    THEN {"negate.sub_noborrow"} ELSE {}

mul_assign(self, other) == mont_reduce(self, mul_product(self, other))

square(self) ==
    mont_reduce(self, Run(Env(Fill(<<>>, Unbound, 2 * limbs), self, self,
                              consts.MODULUS, consts.INV), code.sqr).r)

\* from_repr: [ok, v]: Ok(v) or Err(()).
\* The borrow the reduce of square's mont_reduce drops.
square_lost(self) ==
    reduce_lost(mont_rounds(self, Run(Env(Fill(<<>>, Unbound, 2 * limbs), self, self,
                                          consts.MODULUS, consts.INV), code.sqr).r).self)

from_repr(r) ==
    IF is_valid(r) THEN [ok |-> TRUE, v |-> mul_assign(r, consts.R2)]
    ELSE [ok |-> FALSE, v |-> None]

\* into_repr without the Montgomery reduction: the limbs as they are held.
into_repr_raw(self) == self

\* into_repr: mont_reduce of the limbs of self followed by `limbs` zeros.
into_repr(self) == mont_reduce(self, self \o Fill(<<>>, 0, limbs))

\* The halving of inverse without the addition of MODULUS to an odd coefficient.
HalveOnly(b) == div2(b)

\* The halving of inverse: the coefficient gets MODULUS added when it is odd.
Halve(b) ==
    IF is_even(b) THEN div2(b) ELSE div2(add_nocarry(b, consts.MODULUS).r)

\* The carry the halving of inverse drops: that of add_nocarry(&MODULUS).
HalveLost(b) ==
    IF ~is_even(b) /\ add_nocarry(b, consts.MODULUS).carry
    THEN {"inverse.add_nocarry"} ELSE {}

\* The carries and borrows sub_assign drops while set.
sub_assign_lost(self, other) ==
    (IF cmp(other, self) > 0 /\ add_nocarry(self, consts.MODULUS).carry
     THEN {"sub_assign.add_nocarry"} ELSE {})
    \cup (IF sub_noborrow(IF cmp(other, self) > 0
                          THEN add_nocarry(self, consts.MODULUS).r ELSE self,
                          other).borrow
          THEN {"sub_assign.sub_noborrow"} ELSE {})

\* inverse: the state of its loops, st, is [u, v, b, c, seen, iters, steps,
\* lost, trace]: seen the coefficients b and c produced so far, iters the
\* rounds of the outer loop, steps the rounds of all three loops, lost the
\* carries and borrows dropped while set, trace one entry per outer round.
InvSetU(st, u2, b2, lost) ==
    [st EXCEPT !.u = u2, !.b = b2, !.seen = @ \cup {b2}, !.lost = @ \cup lost,
               !.steps = @ + 1]

InvSetV(st, v2, c2, lost) ==
    [st EXCEPT !.v = v2, !.c = c2, !.seen = @ \cup {c2}, !.lost = @ \cup lost,
               !.steps = @ + 1]

\* inverse: `while u.is_even()`.
RECURSIVE InvHalveU(_)
InvHalveU(st) ==
    IF is_even(st.u) /\ st.steps < MaxInvSteps
    THEN InvHalveU(InvSetU(st, div2(st.u), Halve(st.b), HalveLost(st.b)))
    ELSE st

\* inverse: `while v.is_even()`.
RECURSIVE InvHalveV(_)
InvHalveV(st) ==
    IF is_even(st.v) /\ st.steps < MaxInvSteps
    THEN InvHalveV(InvSetV(st, div2(st.v), Halve(st.c), HalveLost(st.c)))
    ELSE st

\* inverse with the test `v < u` turned round.
InvSubTurned(st) ==
    IF cmp(st.v, st.u) >= 0
    THEN InvSetU(st, sub_noborrow(st.u, st.v).r, sub_assign(st.b, st.c),
                 sub_assign_lost(st.b, st.c))
    ELSE InvSetV(st, sub_noborrow(st.v, st.u).r, sub_assign(st.c, st.b),
                 sub_assign_lost(st.c, st.b))

\* inverse: `if v < u { u -= v; b -= c } else { v -= u; c -= b }`.
InvSub(st) ==
    IF cmp(st.v, st.u) < 0
    THEN InvSetU(st, sub_noborrow(st.u, st.v).r, sub_assign(st.b, st.c),
                 sub_assign_lost(st.b, st.c))
    ELSE InvSetV(st, sub_noborrow(st.v, st.u).r, sub_assign(st.c, st.b),
                 sub_assign_lost(st.c, st.b))

\* One round of the outer loop seen from outside: u and v at its head (u0, v0),
\* at the test `v < u` (u1, v1) and at its end (u2, v2), as integers.
InvRound(head, halved, ended) ==
    [u0 |-> Val(head.u), v0 |-> Val(head.v),
     u1 |-> Val(halved.u), v1 |-> Val(halved.v),
     u2 |-> Val(ended.u), v2 |-> Val(ended.v)]

InvTraced(head, halved, ended) ==
    [ended EXCEPT !.iters = @ + 1,
                  !.trace = Append(@, InvRound(head, halved, ended))]

InvBody(head, halved) == InvTraced(head, halved, InvSub(halved))

\* inverse: `while u != one && v != one`.
RECURSIVE InvLoopUV(_)
InvLoopUV(st) ==
    IF st.u # ReprFrom(1, limbs) /\ st.v # ReprFrom(1, limbs)
       /\ st.steps < MaxInvSteps
    THEN InvLoopUV(InvBody(st, InvHalveV(InvHalveU(st))))
    ELSE st

\* done: the loop left on its own condition, not on the bound of the model.
InvRet(st) ==
    [some |-> TRUE, v |-> IF st.u = ReprFrom(1, limbs) THEN st.b ELSE st.c,
     seen |-> st.seen, iters |-> st.iters, steps |-> st.steps, lost |-> st.lost,
     trace |-> st.trace,
     done |-> st.u = ReprFrom(1, limbs) \/ st.v = ReprFrom(1, limbs)]

\* inverse: [some, v, seen, iters, steps, lost, trace, done]: Some(v) or None.
inverse(self) ==
    IF is_zero(self)
    THEN [some |-> FALSE, v |-> None, seen |-> {}, iters |-> 0, steps |-> 0,
          lost |-> {}, trace |-> <<>>, done |-> TRUE]
    ELSE InvRet(InvLoopUV([u |-> self, v |-> consts.MODULUS, b |-> consts.R2,
                           c |-> zero, seen |-> {consts.R2, zero}, iters |-> 0,
                           steps |-> 0, lost |-> {}, trace |-> <<>>]))

\* Field::pow: the bits of exp from the top one down, a square per bit and a
\* multiplication per set bit; st is [res, k], k the bits still to go.
ExpBit(e, k) == (e[(k \div LimbBits) + 1] \div Pow2(k % LimbBits)) % 2

PowStep(res, self, bit) == IF bit = 1 THEN mul_assign(res, self) ELSE res

RECURSIVE PowLoop(_, _, _)
PowLoop(st, self, e) ==
    IF st.k = 0 THEN st.res
    ELSE PowLoop([res |-> PowStep(square(st.res), self, ExpBit(e, st.k - 1)),
                  k |-> st.k - 1], self, e)

pow(self, e) == PowLoop([res |-> one, k |-> Len(e) * LimbBits], self, e)

\* sqrt for m = 3 mod 4 (Shanks), after a1 = self.pow((m - 3) / 4): [some, v].
ShanksRet(self, a1) ==
    IF mul_assign(square(a1), self) = consts.rneg
    THEN [some |-> FALSE, v |-> None, trace |-> <<>>, done |-> TRUE]
    ELSE [some |-> TRUE, v |-> mul_assign(a1, self), trace |-> <<>>, done |-> TRUE]

sqrt_shanks(self) == ShanksRet(self, pow(self, consts.mod_minus_3_over_4))

\* Tonelli-Shanks: the inner `loop` that counts the squarings of t up to one.
RECURSIVE TonelliOrder(_, _)
TonelliOrder(t2i, i) ==
    IF t2i = one THEN i ELSE TonelliOrder(square(t2i), i + 1)

\* Tonelli-Shanks: `for _ in 0..(m - i - 1) { c.square(); }`; st is [c, k].
RECURSIVE SquareTimes(_)
SquareTimes(st) ==
    IF st.k <= 0 THEN st.c ELSE SquareTimes([c |-> square(st.c), k |-> st.k - 1])

\* Tonelli-Shanks, the body of `while t != Self::one()` statement by statement;
\* st is [c, r, t, m, i, iters, ok, trace].  ok turns FALSE where m - i - 1
\* would be negative (an unsigned underflow); trace has one entry [t, m, i]
\* per round: t and m at its head and the i it found.
TonelliFound(st, i) ==
    [st EXCEPT !.i = i, !.trace = Append(@, [t |-> st.t, m |-> st.m, i |-> i])]

TonelliFindI(st) == TonelliFound(st, TonelliOrder(square(st.t), 1))

TonelliSquareC(st) ==
    IF st.m - st.i - 1 < 0 THEN [st EXCEPT !.ok = FALSE]
    ELSE [st EXCEPT !.c = SquareTimes([c |-> st.c, k |-> st.m - st.i - 1])]

\* Tonelli-Shanks without `r.mul_assign(&c)`.
TonelliKeepR(st) == st

TonelliMulR(st) == [st EXCEPT !.r = mul_assign(st.r, st.c)]

TonelliNextC(st) == [st EXCEPT !.c = square(st.c)]

\* Tonelli-Shanks without `m = i`.
TonelliMulTKeepM(st) ==
    [st EXCEPT !.t = mul_assign(st.t, st.c), !.iters = @ + 1]

TonelliMulT(st) ==
    [st EXCEPT !.t = mul_assign(st.t, st.c), !.m = st.i, !.iters = @ + 1]

TonelliTail(st) ==
    IF st.ok THEN TonelliMulT(TonelliNextC(TonelliMulR(st))) ELSE st

RECURSIVE TonelliLoop(_)
TonelliLoop(st) ==
    IF st.t # one /\ st.ok /\ st.iters < MaxTonelliIters
    THEN TonelliLoop(TonelliTail(TonelliSquareC(TonelliFindI(st))))
    ELSE st

\* done: the loop left on its own condition, not on the bound of the model.
TonelliRet(st) ==
    IF st.ok THEN [some |-> TRUE, v |-> st.r, trace |-> st.trace, done |-> st.t = one]
    ELSE [some |-> FALSE, v |-> <<"panic">>, trace |-> st.trace, done |-> TRUE]

\* sqrt for m = 1 mod 16 (Tonelli-Shanks): [some, v].
sqrt_tonelli(self) ==
    IF is_zero(self) THEN [some |-> TRUE, v |-> self, trace |-> <<>>, done |-> TRUE]
    ELSE IF pow(self, consts.mod_minus_1_over_2) # one
    THEN [some |-> FALSE, v |-> None, trace |-> <<>>, done |-> TRUE]
    ELSE TonelliRet(TonelliLoop([c |-> consts.ROOT_OF_UNITY,
                                 r |-> pow(self, consts.t_plus_1_over_2),
                                 t |-> pow(self, consts.t),
                                 m |-> consts.S, i |-> 0, iters |-> 0, ok |-> TRUE,
                                 trace |-> <<>>]))

sqrt(self) ==
    IF consts.sqrt_impl = "shanks" THEN sqrt_shanks(self) ELSE sqrt_tonelli(self)

\* Rand without the loop of div2.
Unshaved(tmp, k) == tmp

\* Rand: the draw with its top REPR_SHAVE_BITS bits shifted away.
RECURSIVE Shave(_, _)
Shave(tmp, k) == IF k = 0 THEN tmp ELSE Shave(div2(tmp), k - 1)

(***************************************************************************)
(* Bounds of the exploration.                                              *)
(***************************************************************************)
\* Rejected draws one call of rand may go through.
MaxRedraws == 2

\* exp() is called with base in 0..MaxExpBase, exponent in 0..MaxExponent and
\* modulus in 1..MaxExpModulus.
MaxExpBase == 5

MaxExponent == 258

MaxExpModulus == 6

\* Every Repr of `n` limbs.
Reprs(n) == { biguint_to_u64_vec(a, n) : a \in 0..(Pow2(n * LimbBits) - 1) }

\* The elements of the field: the Reprs below the modulus.
Elements == { biguint_to_u64_vec(a, limbs) : a \in 0..(field[1] - 1) }

(***************************************************************************)
(* The derive.                                                             *)
(***************************************************************************)
Init ==
    /\ phase = "derive"
    /\ field \in Fields
    /\ limbs = 0
    /\ consts = None
    /\ code = None
    /\ acc = None
    /\ last = Call("init", None, None, "")
    /\ expIn = None
    /\ expOut = None

\* prime_field: the limb count, the constants, the emitted impl.
Derive ==
    /\ phase = "derive"
    /\ LET n == LimbCount(field[1])
       IN  /\ limbs' = n
           /\ consts' = FieldConstants(field[1], field[2], n)
           /\ code' = [mul |-> mul_impl(n), sqr |-> sqr_impl(n), mont |-> mont_impl(n)]
           /\ phase' = IF UnboundIn(mul_impl(n), n) \cup UnboundIn(sqr_impl(n), n) = {}
                       THEN "ready" ELSE "nobuild"
    /\ last' = Call("derive", None, None, "")
    /\ UNCHANGED << field, acc, expIn, expOut >>

(***************************************************************************)
(* The associated functions that build an element.  They read nothing of   *)
(* an existing element, so they are called while none is held.             *)
(***************************************************************************)
Fresh == phase = "ready" /\ acc = None /\ last.op = "derive"

Zero ==
    /\ Fresh
    /\ acc' = zero
    /\ last' = Call("zero", None, None, "")
    /\ UNCHANGED << phase, field, limbs, consts, code, expIn, expOut >>

One ==
    /\ Fresh
    /\ acc' = one
    /\ last' = Call("one", None, None, "")
    /\ UNCHANGED << phase, field, limbs, consts, code, expIn, expOut >>

FromReprRet(r, res) ==
    /\ acc' = IF res.ok THEN res.v ELSE acc
    /\ last' = Call("from_repr", None, r, IF res.ok THEN "Ok" ELSE "Err")

FromRepr(r) ==
    /\ Fresh
    /\ FromReprRet(r, from_repr(r))
    /\ UNCHANGED << phase, field, limbs, consts, code, expIn, expOut >>

\* One round of the loop of rand: a draw, shaved; returned when valid, else
\* redrawn.  last.ret is the shaved draw, last.n the draws rejected before it.
RandRound(tmp, k) ==
    IF is_valid(tmp)
    THEN /\ acc' = tmp
         /\ last' = [Call("rand", None, None, "") EXCEPT !.n = k, !.ret = tmp]
    ELSE /\ k < MaxRedraws
         /\ acc' = acc
         /\ last' = [Call("rand_retry", None, None, "") EXCEPT !.n = k + 1, !.ret = tmp]

RandDraw(draw) ==
    /\ Fresh \/ (phase = "ready" /\ last.op = "rand_retry")
    /\ RandRound(Shave(draw, consts.REPR_SHAVE_BITS),
                 IF last.op = "rand_retry" THEN last.n ELSE 0)
    /\ UNCHANGED << phase, field, limbs, consts, code, expIn, expOut >>

(***************************************************************************)
(* The methods on the element held.                                        *)
(***************************************************************************)
Held == phase = "ready" /\ acc # None

AddAssign(other) ==
    /\ Held
    /\ acc' = add_assign(acc, other)
    /\ last' = [Call("add_assign", acc, other, "")
                   EXCEPT !.lost = add_assign_lost(acc, other)]
    /\ UNCHANGED << phase, field, limbs, consts, code, expIn, expOut >>

SubAssign(other) ==
    /\ Held
    /\ acc' = sub_assign(acc, other)
    /\ last' = [Call("sub_assign", acc, other, "")
                   EXCEPT !.lost = sub_assign_lost(acc, other)]
    /\ UNCHANGED << phase, field, limbs, consts, code, expIn, expOut >>

\* mul_assign, with what its mont_reduce went through kept in last: env is
\* mont_rounds of the product t, and the element is reduce() of env.self.
MulAssignRet(other, t, env) ==
    /\ acc' = reduce(env.self)
    /\ last' = [Call("mul_assign", acc, other, "")
                   EXCEPT !.t = t, !.pre = env.self, !.carry = env.carry,
                          !.lost = reduce_lost(env.self)]

MulAssignRun(other, t) == MulAssignRet(other, t, mont_rounds(acc, t))

MulAssign(other) ==
    /\ Held
    /\ MulAssignRun(other, mul_product(acc, other))
    /\ UNCHANGED << phase, field, limbs, consts, code, expIn, expOut >>

Negate ==
    /\ Held
    /\ acc' = negate(acc)
    /\ last' = [Call("negate", acc, None, "") EXCEPT !.lost = negate_lost(acc)]
    /\ UNCHANGED << phase, field, limbs, consts, code, expIn, expOut >>

Double ==
    /\ Held
    /\ acc' = double(acc)
    /\ last' = [Call("double", acc, None, "") EXCEPT !.lost = double_lost(acc)]
    /\ UNCHANGED << phase, field, limbs, consts, code, expIn, expOut >>

Square ==
    /\ Held
    /\ acc' = square(acc)
    /\ last' = [Call("square", acc, None, "") EXCEPT !.lost = square_lost(acc)]
    /\ UNCHANGED << phase, field, limbs, consts, code, expIn, expOut >>

InverseRet(res) ==
    /\ acc' = IF res.some THEN res.v ELSE acc
    /\ last' = [Call("inverse", acc, None,
                     IF ~res.done THEN "Running"
                     ELSE IF res.some THEN "Some" ELSE "None")
                   EXCEPT !.seen = res.seen, !.n = res.iters, !.lost = res.lost,
                          !.trace = res.trace, !.steps = res.steps]

Inverse ==
    /\ Held
    /\ InverseRet(inverse(acc))
    /\ UNCHANGED << phase, field, limbs, consts, code, expIn, expOut >>

\* sqrt exists only where the derive emitted a SqrtField impl.
SqrtRet(res) ==
    /\ acc' = IF res.some THEN res.v ELSE acc
    /\ last' = [Call("sqrt", acc, None,
                     IF ~res.done THEN "Running"
                     ELSE IF res.some THEN "Some" ELSE "None")
                   EXCEPT !.ret = IF res.some THEN None ELSE res.v,
                          !.trace = res.trace, !.n = Len(res.trace)]

Sqrt ==
    /\ Held
    /\ consts.sqrt_impl # "none"
    /\ SqrtRet(sqrt(acc))
    /\ UNCHANGED << phase, field, limbs, consts, code, expIn, expOut >>

\* into_repr; y keeps the argument of the from_repr that built the element, if any.
IntoRepr ==
    /\ Held
    /\ last.op # "into_repr"
    /\ last' = [Call("into_repr", acc,
                     IF last.op = "from_repr" THEN last.y ELSE None, "")
                   EXCEPT !.ret = into_repr(acc)]
    /\ UNCHANGED << phase, field, limbs, consts, code, acc, expIn, expOut >>

Next ==
    \/ Derive
    \/ Zero
    \/ One
    \/ \E r \in Reprs(limbs) : FromRepr(r)
    \/ \E draw \in Reprs(limbs) : RandDraw(draw)
    \/ \E other \in Elements : AddAssign(other)
    \/ \E other \in Elements : SubAssign(other)
    \/ \E other \in Elements : MulAssign(other)
    \/ Negate
    \/ Double
    \/ Square
    \/ Inverse
    \/ Sqrt
    \/ IntoRepr

Spec == Init /\ [][Next]_vars

(***************************************************************************)
(* exp() on its own: a base, an exponent and a modulus within the bounds,  *)
(* then the call.                                                          *)
(***************************************************************************)
InitExp ==
    /\ phase = "exp"
    /\ field = None
    /\ limbs = 0
    /\ consts = None
    /\ code = None
    /\ acc = None
    /\ last = Call("init", None, None, "")
    /\ expIn \in (0..MaxExpBase) \X (0..MaxExponent) \X (1..MaxExpModulus)
    /\ expOut = None

ExpCall ==
    /\ phase = "exp"
    /\ phase' = "exp_done"
    /\ expOut' = exp(expIn[1], expIn[2], expIn[3])
    /\ UNCHANGED << field, limbs, consts, code, acc, last, expIn >>

NextExp == ExpCall

SpecExp == InitExp /\ [][NextExp]_vars

(***************************************************************************)
(* The limb count on its own: a modulus within the bound, then the loop    *)
(* at the head of prime_field.                                             *)
(***************************************************************************)
MaxLimbModulus == 300

InitLimbs ==
    /\ phase = "limbs"
    /\ field \in { <<m, 2>> : m \in 3..MaxLimbModulus }
    /\ limbs = 0
    /\ consts = None
    /\ code = None
    /\ acc = None
    /\ last = Call("init", None, None, "")
    /\ expIn = None
    /\ expOut = None

LimbsCall ==
    /\ phase = "limbs"
    /\ phase' = "limbs_done"
    /\ limbs' = LimbCount(field[1])
    /\ UNCHANGED << field, consts, code, acc, last, expIn, expOut >>

NextLimbs == LimbsCall

SpecLimbs == InitLimbs /\ [][NextLimbs]_vars

(***************************************************************************)
(* Properties.                                                             *)
(***************************************************************************)
\* The canonical integer a as an element: from_repr of its Repr.
Encode(a) == from_repr(biguint_to_u64_vec(a, limbs)).v

\* base^e mod modulus by e multiplications, sixteen at a time:
\* base^e = base^16 * base^(e - 16).
RECURSIVE PowMod(_, _, _)
PowMod(base, e, modulus) ==
    IF e = 0 THEN 1 % modulus
    ELSE IF e <= 16 THEN (base * PowMod(base, e - 1, modulus)) % modulus
    ELSE (PowMod(base, 16, modulus) * PowMod(base, e - 16, modulus)) % modulus

\* C1: whatever operations ran, the element held is a Repr of `limbs` limbs
\* strictly below MODULUS, and so is every coefficient b and c that inverse
\* went through.
C1_ReprBelowModulus ==
    phase = "ready" =>
        /\ acc # None => (Len(acc) = limbs /\ Val(acc) < field[1])
        /\ \A e \in last.seen : Len(e) = limbs /\ Val(e) < field[1]

\* C1 witness: a three-limb inverse that went round its loop at least three times.
C1_Witness ==
    /\ phase = "ready" /\ limbs = 3
    /\ last.op = "inverse" /\ last.out = "Some" /\ last.n >= 3
    /\ Cardinality(last.seen) >= 4

\* C2: into_repr of the element from_repr(a) built gives a back, for every a
\* below the modulus.
C2_RoundTrip ==
    (phase = "ready" /\ last.op = "into_repr" /\ last.y # None) =>
        (Val(last.y) < field[1] /\ last.ret = last.y)

\* C2 witness: the round trip of a Repr with more than one limb in use.
C2_Witness ==
    /\ phase = "ready" /\ limbs = 3
    /\ last.op = "into_repr" /\ last.y # None
    /\ Val(last.y) >= W /\ last.ret = last.y /\ last.x # last.y

\* C3: from_repr(r) is Err exactly when r >= MODULUS and Ok exactly when
\* r < MODULUS.
C3_FromReprError ==
    (phase = "ready" /\ last.op = "from_repr") =>
        /\ last.out \in {"Ok", "Err"}
        /\ (last.out = "Err") <=> (Val(last.y) >= field[1])
        /\ (last.out = "Ok") <=> (Val(last.y) < field[1])
        /\ (last.out = "Err") => acc = None

\* C3 witness: from_repr refused the Repr of the modulus itself.
C3_Witness ==
    /\ phase = "ready" /\ last.op = "from_repr" /\ last.out = "Err"
    /\ Val(last.y) = field[1]

\* C4: inverse is None exactly for the zero element, and otherwise Some(y)
\* with x * y = one.
C4_InverseCorrect ==
    (phase = "ready" /\ last.op = "inverse") =>
        /\ (last.out = "None") <=> is_zero(last.x)
        /\ (last.out = "Some") <=> ~is_zero(last.x)
        /\ (last.out = "Some") => mul_assign(last.x, acc) = one

\* C4 witness: the inverse of a three-limb element other than one.
C4_Witness ==
    /\ phase = "ready" /\ limbs = 3
    /\ last.op = "inverse" /\ last.out = "Some"
    /\ last.x # one /\ acc # last.x

\* C5: where the derive emitted sqrt, Some(r) means r * r = x and None means
\* no element squares to x.
C5_SqrtCorrect ==
    (phase = "ready" /\ last.op = "sqrt") =>
        /\ last.ret = None
        /\ (last.out = "Some") => mul_assign(acc, acc) = last.x
        /\ (last.out = "None") => \A r \in Elements : mul_assign(r, r) # last.x

\* C5 witness: a Tonelli-Shanks root of an element other than zero and one.
C5_Witness ==
    /\ phase = "ready" /\ consts.sqrt_impl = "tonelli"
    /\ last.op = "sqrt" /\ last.out = "Some"
    /\ ~is_zero(last.x) /\ last.x # one /\ acc # last.x

C7_SquareEveryLimbCount ==
    phase \in {"ready", "nobuild"} =>
        /\ UnboundIn(code.sqr, limbs) = {}
        /\ (last.op = "square") => acc = mul_assign(last.x, last.x)

\* C8: negate maps zero to zero and x to MODULUS - x, and adding x to the
\* negation of x gives zero.
C8_NegateThenAdd ==
    phase = "ready" =>
        /\ (last.op = "negate") => Val(acc) = (field[1] - Val(last.x)) % field[1]
        /\ (last.op = "add_assign" /\ last.x = negate(last.y)) => acc = zero

\* C8 witness: a nonzero three-limb x added to its negation.
C8_Witness ==
    /\ phase = "ready" /\ limbs = 3
    /\ last.op = "add_assign" /\ ~is_zero(last.y)
    /\ last.x = negate(last.y) /\ acc = zero

\* C9: rand returns the first shaved draw below MODULUS; a shaved draw at
\* or above MODULUS is rejected with nothing returned; a shaved draw has its
\* top REPR_SHAVE_BITS bits clear.
C9_RandBelowModulus ==
    phase = "ready" =>
        /\ (last.op \in {"rand", "rand_retry"}) =>
              /\ consts.REPR_SHAVE_BITS = (limbs * LimbBits) - consts.MODULUS_BITS
              /\ Val(last.ret) < Pow2(consts.MODULUS_BITS)
        /\ (last.op = "rand") => (acc = last.ret /\ Val(acc) < field[1])
        /\ (last.op = "rand_retry") => (acc = None /\ Val(last.ret) >= field[1])

\* C9 witness: rand returned after it rejected a draw.
C9_Witness ==
    /\ phase = "ready" /\ last.op = "rand" /\ last.n >= 1
    /\ Val(acc) < field[1]

\* C10: exp(base, e, modulus) is base^e mod modulus, e = 0 and modulus = 1
\* included.
C10_ExpCorrect ==
    phase = "exp_done" => expOut = PowMod(expIn[1], expIn[2], expIn[3])

\* C10 witness: an exponent of more than one byte.
C10_Witness ==
    /\ phase = "exp_done" /\ expIn[2] >= Pow2(ByteBits)
    /\ expIn[1] > 1 /\ expIn[3] > 2 /\ expOut > 1

\* C11 as stated: for every limb count, one included, the emitted
\* multiplication exists and mul_assign(encode(a), encode(b)) = encode(a * b mod m):
\* INV * m = -1 mod 2^64, the product T handed to mont_reduce is the product
\* of the two Reprs, the Repr before reduce() is below 2m with no carry left
\* by the last adc, and the result is T * R^-1 mod m.
C11_MontgomeryMul ==
    phase \in {"ready", "nobuild"} =>
        /\ phase = "ready"
        /\ (consts.INV * consts.MODULUS[1]) % W = W - 1
        /\ (last.op = "mul_assign") =>
              /\ Val(last.t) = Val(last.x) * Val(last.y)
              /\ last.carry = 0
              /\ Val(last.pre) < 2 * field[1]
              /\ acc = reduce(last.pre)
              /\ (Val(acc) * Pow2(limbs * LimbBits)) % field[1] = Val(last.t) % field[1]
              /\ acc = Encode((Val(into_repr(last.x)) * Val(into_repr(last.y))) % field[1])

\* C12: for every nonzero element the loop of inverse ends, on its own
\* condition with u = 1 or v = 1; in every round of the outer loop u and v
\* are positive, u differs from v, and u + v at the end of the round is
\* smaller than at its head.
C12_InverseTerminates ==
    (phase = "ready" /\ last.op = "inverse" /\ ~is_zero(last.x)) =>
        /\ last.out = "Some"
        /\ last.steps < MaxInvSteps
        /\ Len(last.trace) = last.n
        /\ \A k \in 1..Len(last.trace) :
              /\ last.trace[k].u0 > 0 /\ last.trace[k].v0 > 0
              /\ last.trace[k].u1 > 0 /\ last.trace[k].v1 > 0
              /\ last.trace[k].u2 > 0 /\ last.trace[k].v2 > 0
              /\ last.trace[k].u0 # last.trace[k].v0
              /\ last.trace[k].u1 # last.trace[k].v1
              /\ last.trace[k].u2 # last.trace[k].v2
              /\ last.trace[k].u0 # 1 /\ last.trace[k].v0 # 1
              /\ last.trace[k].u2 + last.trace[k].v2
                    < last.trace[k].u0 + last.trace[k].v0
              /\ (k = 1) =>
                    (last.trace[k].u0 = Val(last.x) /\ last.trace[k].v0 = field[1])
              /\ (k < Len(last.trace)) =>
                    /\ last.trace[k + 1].u0 = last.trace[k].u2
                    /\ last.trace[k + 1].v0 = last.trace[k].v2
              /\ (k = Len(last.trace)) =>
                    (last.trace[k].u2 = 1 \/ last.trace[k].v2 = 1)

\* C12 witness: an inverse of a three-limb element that took five rounds of
\* the outer loop or more.
C12_Witness ==
    /\ phase = "ready" /\ limbs = 3
    /\ last.op = "inverse" /\ last.out = "Some" /\ Len(last.trace) >= 5

\* C13: in the Tonelli-Shanks sqrt of a nonzero quadratic residue the outer
\* loop ends with t = one; in each round the i found is the least i >= 1
\* with t^(2^i) = one, it is below the m of the round (so m - i - 1 is never
\* negative), and the m of the next round is that i: m strictly decreases.
C13_TonelliTerminates ==
    (phase = "ready" /\ last.op = "sqrt" /\ consts.sqrt_impl = "tonelli"
        /\ ~is_zero(last.x) /\ pow(last.x, consts.mod_minus_1_over_2) = one) =>
        /\ last.out = "Some"
        /\ Len(last.trace) < MaxTonelliIters
        /\ \A k \in 1..Len(last.trace) :
              /\ last.trace[k].t # one
              /\ last.trace[k].i >= 1
              /\ last.trace[k].i < last.trace[k].m
              /\ SquareTimes([c |-> last.trace[k].t, k |-> last.trace[k].i]) = one
              /\ \A j \in 1..(last.trace[k].i - 1) :
                    SquareTimes([c |-> last.trace[k].t, k |-> j]) # one
              /\ (k = 1) => last.trace[k].m = consts.S
              /\ (k < Len(last.trace)) =>
                    /\ last.trace[k + 1].m = last.trace[k].i
                    /\ last.trace[k + 1].m < last.trace[k].m

\* C13 witness: a Tonelli-Shanks sqrt whose outer loop went round at least twice.
C13_Witness ==
    /\ phase = "ready" /\ consts.sqrt_impl = "tonelli"
    /\ last.op = "sqrt" /\ last.out = "Some" /\ Len(last.trace) >= 2

\* C14: no field operation drops a carry or a borrow that is set: not the
\* add_nocarry of add_assign, not the mul2 of double, not the add_nocarry of
\* MODULUS in sub_assign and in the halving of inverse, not the sub_noborrow
\* of sub_assign, negate and reduce.
C14_NoCarryLost ==
    phase = "ready" => last.lost = {}

\* C14 witness: an add_assign of three-limb elements whose sum reached
\* MODULUS, so that reduce subtracted.
C14_Witness ==
    /\ phase = "ready" /\ limbs = 3
    /\ last.op = "add_assign" /\ last.lost = {}
    /\ Val(last.x) + Val(last.y) >= field[1] + W
    /\ Val(acc) = Val(last.x) + Val(last.y) - field[1]

\* C15: for every odd modulus m >= 3 the limb count is the least n >= 1 with
\* 2 * m < 2^(LimbBits * n): the backing representation holds 2 * m, and one
\* limb less would not.
C15_LimbCountLeast ==
    (phase = "limbs_done" /\ field[1] % 2 = 1) =>
        /\ limbs >= 1
        /\ 2 * field[1] < Pow2(LimbBits * limbs)
        /\ limbs > 1 => 2 * field[1] >= Pow2(LimbBits * (limbs - 1))

\* C15 witness: an odd modulus whose double is just above two limbs, counted
\* as three limbs.
C15_Witness ==
    /\ phase = "limbs_done" /\ field[1] % 2 = 1
    /\ limbs = 3
    /\ 2 * field[1] < Pow2(LimbBits * 2) + 4

====
